---- MODULE Spec2Model ----
(***************************************************************************)
(* LingoPop: the raw-PCM audio path of src/services/geminiService.ts.      *)
(*                                                                         *)
(*   decode            base64 text -> bytes                                *)
(*   decodeAudioData   bytes -> AudioBuffer (16-bit little-endian PCM)     *)
(*   playAudio         request, decode, play; speech synthesis on failure  *)
(*                                                                         *)
(* JavaScript numbers that need not be integers (frameCount, the samples   *)
(* of a Float32Array) are kept as fractions [num, den]; den = 0 stands for *)
(* NaN (num = 0) and for +Infinity (num > 0).                              *)
(***************************************************************************)
EXTENDS Integers, Sequences, FiniteSets, TLC

\* ------------------------------------------------------------------ bounds
MaxBytes == 6
MaxChannels == 2
MaxCalls == 2
MaxSearches == 3

\* ------------------------------------------------------- program constants
SampleRate == 24000
PlayChannels == 1
Norm == 32768

\* The byte values the inputs are drawn from: 0x00, 0x7F, 0x80, 0xFF give the
\* 16-bit extremes 32767 (FF 7F), -32768 (00 80), -1 (FF FF) and 0.
ByteVals == {0, 127, 128, 255}

\* Two inputs outside ByteVals: the samples [0, 32767] and [100, -100, 200, -200].
ExampleInputs ==
  { <<0, 0, 255, 127>>, <<100, 0, 156, 255, 200, 0, 56, 255>> }

ByteSeqs == UNION { [1..n -> ByteVals] : n \in 0..MaxBytes } \cup ExampleInputs

ChannelArgs == (-1)..MaxChannels

CallIds == 1..MaxCalls

\* data, numChannels, ret, dpc: one call of decodeAudioData on its own
\* audioContext: the module-level context; ctxCount: contexts constructed
\* calls: the playAudio calls, each with its position and what it has done
VARIABLES data, numChannels, ret, dpc, audioContext, ctxCount, calls

\* The state of the App component (useState) that decides which screen is shown
\* and what the search, the notebook and the tutor chat hold: view, query,
\* isLoading, currentResult, notebook, chatSession; searches are the lookupTerm
\* requests of handleSearch. (The languages, the chat messages and the story
\* text are not read by any handler below and are left out.)
VARIABLES view, query, isLoading, currentResult, notebook, chatSession, searches

audioVars == <<data, numChannels, ret, dpc, audioContext, ctxCount, calls>>

appVars == <<view, query, isLoading, currentResult, notebook, chatSession, searches>>

vars == <<data, numChannels, ret, dpc, audioContext, ctxCount, calls,
          view, query, isLoading, currentResult, notebook, chatSession, searches>>

\* ------------------------------------------------------------ JS numbers
Frac(n, d) == [num |-> n, den |-> d]

NaN == Frac(0, 0)

Zero == Frac(0, 1)

IsNaN(x) == x.den = 0 /\ x.num = 0

\* a = b on numbers (NaN equals nothing)
NumEq(a, b) ==
  /\ ~IsNaN(a) /\ ~IsNaN(b)
  /\ IF a.den = 0 \/ b.den = 0
       THEN a.den = 0 /\ b.den = 0
       ELSE a.num * b.den = b.num * a.den

\* i < x for an integer i and a number x with x.num >= 0
IntLess(i, x) ==
  IF x.den > 0 THEN i * x.den < x.num
  ELSE IF x.den < 0 THEN i * x.den > x.num
  ELSE x.num > 0

\* The WebIDL conversion of a number to unsigned long: NaN and the infinities
\* give 0, anything else is truncated. A negative result stands for its wrapped
\* value 2^32 - |x|, which no argument of createBuffer accepts.
ToUnsignedLong(x) ==
  IF x.den > 0 THEN x.num \div x.den
  ELSE IF x.den < 0 THEN 0 - (x.num \div (0 - x.den))
  ELSE 0

\* ------------------------------------------------------------ promises
NoBuffer == [numberOfChannels |-> 0, length |-> 0, sampleRate |-> 0, channels |-> <<>>]

Fulfilled(b) == [state |-> "fulfilled", error |-> "none", buffer |-> b]

Rejected(e) == [state |-> "rejected", error |-> e, buffer |-> NoBuffer]

Pending == [state |-> "pending", error |-> "none", buffer |-> NoBuffer]

\* ------------------------------------------------------------ typed arrays
\* (bug variants: the bytes read high byte first; the view unsigned)
Int16OfBigEndian(lo, hi) ==
  LET u == hi + 256 * lo IN IF u >= 32768 THEN u - 65536 ELSE u

Int16OfUnsigned(lo, hi) == lo + 256 * hi

\* The signed 16-bit value of two bytes, low byte first (an Int16Array on a
\* little-endian platform).
Int16Of(lo, hi) ==
  LET u == lo + 256 * hi IN IF u >= 32768 THEN u - 65536 ELSE u

\* new Int16Array(data.buffer): a RangeError when the byte length is odd.
Int16ArrayThrows(bytes) == Len(bytes) % 2 # 0

NewInt16Array(bytes) ==
  [k \in 1..(Len(bytes) \div 2) |-> Int16Of(bytes[2 * k - 1], bytes[2 * k])]

\* dataInt16[idx]: undefined outside the array
Int16Get(arr, idx) ==
  IF idx >= 0 /\ idx < Len(arr)
    THEN [defined |-> TRUE, val |-> arr[idx + 1]]
    ELSE [defined |-> FALSE, val |-> 0]

\* (bug variant: the divisor 32767)
NormalizeBy32767(x) == IF x.defined THEN Frac(x.val, 32767) ELSE NaN

\* x / 32768.0
Normalize(x) == IF x.defined THEN Frac(x.val, Norm) ELSE NaN

\* (bug variant: a plain array, which grows on a write at its end)
ArraySetGrowing(arr, idx, v) ==
  IF idx >= 0 /\ idx < Len(arr) THEN [arr EXCEPT ![idx + 1] = v]
  ELSE IF idx = Len(arr) THEN Append(arr, v) ELSE arr

\* channelData[idx] = v on a Float32Array: a write outside the array is dropped
Float32Set(arr, idx, v) ==
  IF idx >= 0 /\ idx < Len(arr) THEN [arr EXCEPT ![idx + 1] = v] ELSE arr

\* ------------------------------------------------------------ AudioBuffer
\* ctx.createBuffer(numberOfChannels, length, sampleRate) throws a
\* NotSupportedError when an argument is zero, negative or out of range.
CreateBufferThrows(nCh, length, rate) ==
  \/ nCh < 1 \/ nCh > 32
  \/ length < 1
  \/ rate < 8000 \/ rate > 96000

CreateBuffer(nCh, length, rate) ==
  [numberOfChannels |-> nCh, length |-> length, sampleRate |-> rate,
   channels |-> [c \in 1..nCh |-> [k \in 1..length |-> Zero]]]

\* ------------------------------------------------------------ decodeAudioData
RECURSIVE FillFrames(_, _, _, _, _, _)
FillFrames(channelData, dataInt16, i, frameCount, nCh, channel) ==
  IF ~IntLess(i, frameCount) THEN channelData
  ELSE FillFrames(
         Float32Set(channelData, i, Normalize(Int16Get(dataInt16, i * nCh + channel))),
         dataInt16, i + 1, frameCount, nCh, channel)

RECURSIVE FillChannels(_, _, _, _, _)
FillChannels(buffer, dataInt16, channel, frameCount, nCh) ==
  IF ~(channel < nCh) THEN buffer
  ELSE FillChannels(
         [buffer EXCEPT !.channels[channel + 1] =
            FillFrames(@, dataInt16, 0, frameCount, nCh, channel)],
         dataInt16, channel + 1, frameCount, nCh)

\* The settled promise decodeAudioData(bytes, ctx, rate, nCh) returns.
DecodeAudioData(bytes, ctx, rate, nCh) ==
  IF Int16ArrayThrows(bytes) THEN Rejected("RangeError")
  ELSE
    LET dataInt16 == NewInt16Array(bytes)
        frameCount == Frac(Len(dataInt16), nCh)
        length == ToUnsignedLong(frameCount)
    IN IF CreateBufferThrows(nCh, length, rate) THEN Rejected("NotSupportedError")
       ELSE Fulfilled(FillChannels(CreateBuffer(nCh, length, rate),
                                   dataInt16, 0, frameCount, nCh))

\* ------------------------------------------------------------ AudioContext
NoContext == [exists |-> FALSE, state |-> "none"]

Context(s) == [exists |-> TRUE, state |-> s]

\* ------------------------------------------------------------ decode (base64)
B64Alphabet ==
  << "A", "B", "C", "D", "E", "F", "G", "H", "I", "J", "K", "L", "M",
     "N", "O", "P", "Q", "R", "S", "T", "U", "V", "W", "X", "Y", "Z",
     "a", "b", "c", "d", "e", "f", "g", "h", "i", "j", "k", "l", "m",
     "n", "o", "p", "q", "r", "s", "t", "u", "v", "w", "x", "y", "z",
     "0", "1", "2", "3", "4", "5", "6", "7", "8", "9", "+", "/" >>

IsB64Char(ch) == \E k \in 1..Len(B64Alphabet) : B64Alphabet[k] = ch

B64Value(ch) == (CHOOSE k \in 1..Len(B64Alphabet) : B64Alphabet[k] = ch) - 1

\* atob drops one or two trailing "=" of a string whose length is a multiple of 4
StripPadding(s) ==
  IF Len(s) > 0 /\ Len(s) % 4 = 0 /\ s[Len(s)] = "="
    THEN IF s[Len(s) - 1] = "=" THEN SubSeq(s, 1, Len(s) - 2)
                                ELSE SubSeq(s, 1, Len(s) - 1)
    ELSE s

\* atob throws an InvalidCharacterError
AtobThrows(s) ==
  LET t == StripPadding(s)
  IN \/ Len(t) % 4 = 1
     \/ \E k \in 1..Len(t) : ~IsB64Char(t[k])

RECURSIVE B64Bytes(_)
B64Bytes(t) ==
  IF Len(t) >= 4 THEN
    LET n == B64Value(t[1]) * 262144 + B64Value(t[2]) * 4096
               + B64Value(t[3]) * 64 + B64Value(t[4])
    IN <<n \div 65536, (n \div 256) % 256, n % 256>> \o B64Bytes(SubSeq(t, 5, Len(t)))
  ELSE IF Len(t) = 3 THEN
    LET n == (B64Value(t[1]) * 4096 + B64Value(t[2]) * 64 + B64Value(t[3])) \div 4
    IN <<n \div 256, n % 256>>
  ELSE IF Len(t) = 2 THEN
    << (B64Value(t[1]) * 64 + B64Value(t[2])) \div 16 >>
  ELSE <<>>

\* the char codes of atob(s)
Atob(s) == B64Bytes(StripPadding(s))

\* decode(base64): bytes[i] = binaryString.charCodeAt(i), stored in a Uint8Array
Decode(base64) ==
  LET binaryString == Atob(base64)
  IN [i \in 1..Len(binaryString) |-> binaryString[i] % 256]

\* ------------------------------------------------------------ playAudio
Texts == {"hola", "merci"}

\* base64 payloads, one character per element:
\*   AAD/fw==  00 00 FF 7F   two frames
\*   AIA=      00 80         one frame
\*   AAAA      00 00 00      an odd number of bytes
\*   A                       not base64
Payloads ==
  { <<"A", "A", "D", "/", "f", "w", "=", "=">>,
    <<"A", "I", "A", "=">>,
    <<"A", "A", "A", "A">>,
    <<"A">> }

\* what generateContent settles with: a rejection, or a response whose first
\* part has inlineData.data (present) or not
Responses ==
  {[kind |-> "reject", present |-> FALSE, b64 |-> <<>>],
   [kind |-> "resolve", present |-> FALSE, b64 |-> <<>>],
   [kind |-> "resolve", present |-> TRUE, b64 |-> <<>>]}
  \cup {[kind |-> "resolve", present |-> TRUE, b64 |-> p] : p \in Payloads}

NoResponse == [kind |-> "none", present |-> FALSE, b64 |-> <<>>]

\* pc: idle, awaitGen, awaitResume, awaitDecode, done
\* failed: what threw inside the try block ("none" when nothing did)
\* spoke: the texts given to speechSynthesis.speak; played: the buffers started
\* log: the steps of the call in the order they ran
IdleCall ==
  [pc |-> "idle", text |-> "", response |-> NoResponse, promise |-> Pending,
   failed |-> "none", spoke |-> <<>>, played |-> <<>>, log |-> <<>>]

\* (bug variant: the catch block only logs the error)
CatchBlockLogOnly(call) ==
  [call EXCEPT !.pc = "done", !.log = Append(@, "catch")]

\* lines 78-83: the error is logged and the text handed to speech synthesis
CatchBlock(call) ==
  [call EXCEPT !.pc = "done",
               !.spoke = Append(@, call.text),
               !.log = Append(Append(@, "catch"), "speak")]

\* a throw inside the try block: control goes to the catch block
Throw(call, cause) == CatchBlock([call EXCEPT !.failed = cause])

\* lines 66-71: decode(base64Audio), then decodeAudioData, then the await
DecodeStage(call, ctx) ==
  IF AtobThrows(call.response.b64)
    THEN Throw([call EXCEPT !.log = Append(@, "atob")], "InvalidCharacterError")
    ELSE [call EXCEPT
            !.promise = DecodeAudioData(Decode(call.response.b64), ctx,
                                        SampleRate, PlayChannels),
            !.pc = "awaitDecode",
            !.log = Append(Append(@, "atob"), "pcm")]

\* (bug variant: a context is constructed on every call)
NeedsContextAlways(ctx) == TRUE

\* line 57: if (!audioContext)
NeedsContext(ctx) == ~ctx.exists

\* line 39-52: the call starts and awaits generateContent
PlayAudio(c) ==
  /\ calls[c].pc = "idle"
  /\ \E text \in Texts :
       calls' = [calls EXCEPT ![c] =
                   [@ EXCEPT !.pc = "awaitGen", !.text = text,
                             !.log = Append(@, "request")]]
  /\ UNCHANGED <<data, numChannels, ret, dpc, audioContext, ctxCount>>
  /\ UNCHANGED appVars

\* lines 52-64: generateContent has settled
GenSettle(c) ==
  /\ calls[c].pc = "awaitGen"
  /\ \E r \in Responses : \E made \in {"running", "suspended", "throw"} :
       LET call == [calls[c] EXCEPT !.response = r, !.log = Append(@, "generated")]
       IN IF r.kind = "reject" THEN
            /\ calls' = [calls EXCEPT ![c] = Throw(call, "request")]
            /\ UNCHANGED <<audioContext, ctxCount>>
          ELSE IF ~r.present \/ r.b64 = <<>> THEN
            /\ calls' = [calls EXCEPT ![c] = Throw(call, "No audio data returned")]
            /\ UNCHANGED <<audioContext, ctxCount>>
          ELSE IF NeedsContext(audioContext) /\ made = "throw" THEN
            /\ calls' = [calls EXCEPT ![c] = Throw(call, "AudioContext")]
            /\ UNCHANGED <<audioContext, ctxCount>>
          ELSE
            LET ctx == IF NeedsContext(audioContext) THEN Context(made) ELSE audioContext
            IN /\ audioContext' = ctx
               /\ ctxCount' = IF NeedsContext(audioContext) THEN ctxCount + 1 ELSE ctxCount
               /\ calls' = [calls EXCEPT ![c] =
                              IF ctx.state = "suspended"
                                THEN [call EXCEPT !.pc = "awaitResume",
                                                  !.log = Append(@, "resume")]
                                ELSE DecodeStage(call, ctx)]
  /\ UNCHANGED <<data, numChannels, ret, dpc>>
  /\ UNCHANGED appVars

\* lines 63-71: audioContext.resume() has settled
ResumeSettle(c) ==
  /\ calls[c].pc = "awaitResume"
  /\ \E ok \in BOOLEAN :
       IF ok
         THEN /\ audioContext' = [audioContext EXCEPT !.state = "running"]
              /\ calls' = [calls EXCEPT ![c] = DecodeStage(calls[c], audioContext')]
         ELSE /\ calls' = [calls EXCEPT ![c] = Throw(calls[c], "resume")]
              /\ UNCHANGED audioContext
  /\ UNCHANGED <<data, numChannels, ret, dpc, ctxCount>>
  /\ UNCHANGED appVars

\* (bug variant: the promise is not checked, whatever it holds is started)
DecodeSettleUnchecked(c) ==
  /\ calls[c].pc = "awaitDecode"
  /\ calls' = [calls EXCEPT ![c] =
                 [calls[c] EXCEPT !.pc = "done",
                                  !.played = Append(@, calls[c].promise.buffer),
                                  !.log = Append(@, "start")]]
  /\ UNCHANGED <<data, numChannels, ret, dpc, audioContext, ctxCount>>
  /\ UNCHANGED appVars

\* (bug variant: the decoded buffer is kept in one variable all calls share, so
\* a call starts the buffer another call decoded)
DecodeSettleShared(c) ==
  /\ calls[c].pc = "awaitDecode"
  /\ LET others == {d \in CallIds : d # c /\ calls[d].promise.state = "fulfilled"}
         src == IF others = {} THEN c ELSE CHOOSE d \in others : TRUE
     IN calls' = [calls EXCEPT ![c] =
                    IF calls[c].promise.state = "rejected"
                      THEN Throw(calls[c], calls[c].promise.error)
                      ELSE [calls[c] EXCEPT !.pc = "done",
                                            !.played = Append(@, calls[src].promise.buffer),
                                            !.log = Append(@, "start")]]
  /\ UNCHANGED <<data, numChannels, ret, dpc, audioContext, ctxCount>>
  /\ UNCHANGED appVars

\* lines 66-76: the promise of decodeAudioData has settled
DecodeSettle(c) ==
  /\ calls[c].pc = "awaitDecode"
  /\ calls' = [calls EXCEPT ![c] =
                 IF calls[c].promise.state = "rejected"
                   THEN Throw(calls[c], calls[c].promise.error)
                   ELSE [calls[c] EXCEPT !.pc = "done",
                                         !.played = Append(@, calls[c].promise.buffer),
                                         !.log = Append(@, "start")]]
  /\ UNCHANGED <<data, numChannels, ret, dpc, audioContext, ctxCount>>
  /\ UNCHANGED appVars

\* line 61: the platform suspends a running context
PlatformSuspend ==
  /\ audioContext.exists /\ audioContext.state = "running"
  /\ audioContext' = [audioContext EXCEPT !.state = "suspended"]
  /\ UNCHANGED <<data, numChannels, ret, dpc, ctxCount, calls>>
  /\ UNCHANGED appVars

\* ------------------------------------------------------------ App: state
\* a query is the text of the search box, one character per element
Queries == { <<>>, <<" ">>, <<"a">>, <<"b">>, <<"c">> }

SearchIds == 1..MaxSearches

RECURSIVE TrimStart(_)
TrimStart(s) == IF s # <<>> /\ Head(s) = " " THEN TrimStart(Tail(s)) ELSE s

RECURSIVE TrimEnd(_)
TrimEnd(s) ==
  IF s # <<>> /\ s[Len(s)] = " " THEN TrimEnd(SubSeq(s, 1, Len(s) - 1)) ELSE s

\* query.trim()
Trim(s) == TrimEnd(TrimStart(s))

NoEntry == [exists |-> FALSE, term |-> <<>>, id |-> 0]

\* the DictionaryEntry lookupTerm returns for a term; id stands for the
\* Date.now() of its return, here the number of the search
Entry(term, id) == [exists |-> TRUE, term |-> term, id |-> id]

NoSession == [exists |-> FALSE, term |-> <<>>]

\* createChatSession with the system instruction naming result.term
Session(term) == [exists |-> TRUE, term |-> term]

NoSearch == [state |-> "unused", term |-> <<>>]

\* a request that has settled: its closure, and with it the term, is gone
SettledSearch == [state |-> "settled", term |-> <<>>]

AppInit ==
  /\ view = "ONBOARDING"
  /\ query = <<>>
  /\ isLoading = FALSE
  /\ currentResult = NoEntry
  /\ notebook = <<>>
  /\ chatSession = NoSession
  /\ searches = [i \in SearchIds |-> NoSearch]

Init ==
  /\ AppInit
  /\ data = <<>>
  /\ numChannels = PlayChannels
  /\ ret = Pending
  /\ dpc = "unused"
  /\ audioContext = NoContext
  /\ ctxCount = 0
  /\ calls = [c \in CallIds |-> IdleCall]

Next ==
  \/ \E c \in CallIds : PlayAudio(c)
  \/ \E c \in CallIds : GenSettle(c)
  \/ \E c \in CallIds : ResumeSettle(c)
  \/ \E c \in CallIds : DecodeSettle(c)
  \/ PlatformSuspend

Spec == Init /\ [][Next]_vars

\* ------------------------------------------------------------ the decoder alone
InitDecode ==
  /\ AppInit
  /\ data \in ByteSeqs
  /\ numChannels \in ChannelArgs
  /\ ret = Pending
  /\ dpc = "ready"
  /\ audioContext \in {Context("running"), Context("suspended")}
  /\ ctxCount = 1
  /\ calls = [c \in CallIds |-> IdleCall]

\* (bug variants: the channel count clamped to at least 1; the input consumed)
DecodeCallClamped ==
  /\ dpc = "ready"
  /\ ret' = DecodeAudioData(data, audioContext, SampleRate,
                            IF numChannels < 1 THEN 1 ELSE numChannels)
  /\ dpc' = "settled"
  /\ UNCHANGED <<data, numChannels, audioContext, ctxCount, calls>>
  /\ UNCHANGED appVars

DecodeCallConsuming ==
  /\ dpc = "ready"
  /\ ret' = DecodeAudioData(data, audioContext, SampleRate, numChannels)
  /\ dpc' = "settled"
  /\ data' = <<>>
  /\ UNCHANGED <<numChannels, audioContext, ctxCount, calls>>
  /\ UNCHANGED appVars

\* lines 17-34: one call of decodeAudioData, run to its return
DecodeCall ==
  /\ dpc = "ready"
  /\ ret' = DecodeAudioData(data, audioContext, SampleRate, numChannels)
  /\ dpc' = "settled"
  /\ UNCHANGED <<data, numChannels, audioContext, ctxCount, calls>>
  /\ UNCHANGED appVars

NextDecode == DecodeCall

SpecDecode == InitDecode /\ [][NextDecode]_vars

\* ------------------------------------------------------------ claims: decoder
\* What a test of the decoder computes on its own from the input bytes.
SignedLE(lo, hi) ==
  LET u == lo + 256 * hi IN IF u >= 32768 THEN u - 65536 ELSE u

\* The 16-bit value the input holds for frame i of channel c (both from 0).
InputSample(c, i) ==
  SignedLE(data[2 * (i * numChannels + c) + 1], data[2 * (i * numChannels + c) + 2])

\* Math.round(x * 32768) for a finite x
Requantize(x) ==
  LET q == (x.num * 32768) \div x.den
      r == (x.num * 32768) % x.den
  IN IF 2 * r >= x.den THEN q + 1 ELSE q

Abs(n) == IF n < 0 THEN 0 - n ELSE n

Returned == dpc = "settled" /\ ret.state = "fulfilled"

ChannelIdx == 0..(ret.buffer.numberOfChannels - 1)

FrameIdx == 0..(ret.buffer.length - 1)

Sample(c, i) == ret.buffer.channels[c + 1][i + 1]

\* C1: for every byte sequence and every positive numChannels, decodeAudioData
\* produces a buffer whose frame count is floor(len(bytes) / (2 * numChannels)).
C1_FrameCountEveryInput ==
  (dpc = "settled" /\ numChannels > 0) =>
     /\ ret.state = "fulfilled"
     /\ ret.buffer.length = Len(data) \div (2 * numChannels)

\* C2: in every returned buffer, the sample of channel c at frame i is v / 32768,
\* v the signed 16-bit little-endian value at bytes 2*(i*numChannels+c) and the next.
C2_SampleValues ==
  Returned =>
     /\ ret.buffer.numberOfChannels = numChannels
     /\ Len(ret.buffer.channels) = numChannels
     /\ \A c \in ChannelIdx : \A i \in FrameIdx :
          /\ i + 1 <= Len(ret.buffer.channels[c + 1])
          /\ 2 * (i * numChannels + c) + 2 <= Len(data)
          /\ NumEq(Sample(c, i), Frac(InputSample(c, i), 32768))

C2_Witness ==
  /\ Returned
  /\ data = <<100, 0, 156, 255, 200, 0, 56, 255>>
  /\ numChannels = 2
  /\ ret.buffer.channels =
       << <<Frac(100, 32768), Frac(200, 32768)>>,
          <<Frac(0 - 100, 32768), Frac(0 - 200, 32768)>> >>

\* C3: with numChannels <= 0 the call fails with an error for every byte input,
\* the empty one included, and produces no buffer.
C3_NonPositiveChannelsFail ==
  (dpc = "settled" /\ numChannels <= 0) =>
     /\ ret.state = "rejected"
     /\ ret.error \in {"NotSupportedError", "RangeError"}
     /\ ret.buffer = NoBuffer

C3_Witness ==
  /\ dpc = "settled" /\ numChannels = 0 /\ data = <<>>
  /\ ret.state = "rejected"

C3_WitnessNonEmpty ==
  /\ dpc = "settled" /\ numChannels < 0 /\ Len(data) = 4
  /\ ret.state = "rejected"

\* C4: input whose length is not a multiple of 2 * numChannels is never an error:
\* the call completes and drops the bytes that do not form a complete frame.
C4_TruncatedNeverAnError ==
  (dpc = "settled" /\ numChannels > 0 /\ Len(data) % (2 * numChannels) # 0) =>
     /\ ret.state = "fulfilled"
     /\ \A c \in ChannelIdx : Len(ret.buffer.channels[c + 1]) = Len(data) \div (2 * numChannels)

\* C5: for every positive numChannels, decoding the empty byte sequence raises
\* no error and yields a buffer with zero frames in every channel.
C5_EmptyInputZeroFrames ==
  (dpc = "settled" /\ numChannels > 0 /\ data = <<>>) =>
     /\ ret.state = "fulfilled"
     /\ ret.buffer.numberOfChannels = numChannels
     /\ \A c \in ChannelIdx : ret.buffer.channels[c + 1] = <<>>

\* C6: in every returned buffer all numChannels channels have the same length,
\* and that length is frameCount.
C6_ChannelLengths ==
  Returned =>
     /\ Len(ret.buffer.channels) = numChannels
     /\ \A c \in ChannelIdx :
          /\ Len(ret.buffer.channels[c + 1]) = ret.buffer.length
          /\ Len(ret.buffer.channels[c + 1]) = Len(data) \div (2 * numChannels)

\* three samples for two channels: the loop runs to i = 1 with one frame allocated
C6_Witness ==
  /\ Returned
  /\ numChannels = 2 /\ Len(data) = 6
  /\ Len(ret.buffer.channels[1]) = 1 /\ Len(ret.buffer.channels[2]) = 1

\* C8: when the length is an exact multiple of 2 * numChannels, every decoded
\* sample times 32768, rounded, is within 1 of the original 16-bit integer.
C8_RequantizeWithinOne ==
  (Returned /\ Len(data) % (2 * numChannels) = 0) =>
     \A c \in ChannelIdx : \A i \in FrameIdx :
        /\ Sample(c, i).den > 0
        /\ Abs(Requantize(Sample(c, i)) - InputSample(c, i)) <= 1

C8_Witness ==
  /\ Returned
  /\ numChannels = 1 /\ data = <<255, 127, 0, 128, 255, 255>>
  /\ Requantize(Sample(0, 0)) = 32767
  /\ Requantize(Sample(0, 1)) = 0 - 32768
  /\ Requantize(Sample(0, 2)) = 0 - 1

\* C9: every sample of a returned buffer lies in [-1, 1]; -1 only for the 16-bit
\* value -32768; no sample exceeds 32767/32768.
C9_SampleRange ==
  Returned =>
     \A c \in ChannelIdx : \A i \in FrameIdx :
        LET s == Sample(c, i) IN
        /\ s.den > 0
        /\ 0 - s.den <= s.num /\ s.num <= s.den
        /\ (s.num = 0 - s.den) => InputSample(c, i) = 0 - 32768
        /\ s.num * 32768 <= 32767 * s.den

C9_Witness ==
  /\ Returned
  /\ numChannels = 1 /\ data = <<0, 128, 255, 127>>
  /\ NumEq(Sample(0, 0), Frac(0 - 1, 1))
  /\ NumEq(Sample(0, 1), Frac(32767, 32768))

\* C10: a call of decodeAudioData leaves the input bytes and every module-level
\* variable (audioContext included) as they were, and starts no request, speech
\* or playback; only the returned promise changes.
C10_DecodeFrame ==
  [][(dpc = "ready" /\ dpc' = "settled") =>
        (/\ data' = data /\ numChannels' = numChannels
         /\ audioContext' = audioContext /\ ctxCount' = ctxCount
         /\ calls' = calls)]_vars

C10_Witness ==
  /\ Returned
  /\ Len(data) = 4 /\ numChannels = 1
  /\ audioContext.exists

\* ------------------------------------------------------------ claims: playAudio
PrimaryFailed(k) == k.failed # "none"

\* C7: in a playAudio call the speech-synthesis fallback is invoked exactly when
\* the primary path failed in that call (the request threw, no audio data came
\* back, or decoding / playback setup threw); no call both starts PCM playback
\* and speaks; the fallback is given the call's own text.
C7_FallbackIffPrimaryFailed ==
  \A c \in CallIds :
    LET k == calls[c] IN
    /\ (k.spoke # <<>>) <=> PrimaryFailed(k)
    /\ ~(k.played # <<>> /\ k.spoke # <<>>)
    /\ k.spoke \in {<<>>, <<k.text>>}
    /\ (k.response.kind = "reject") => k.spoke = <<k.text>>
    /\ (k.response.kind = "resolve" /\ (~k.response.present \/ k.response.b64 = <<>>))
          => k.spoke = <<k.text>>
    /\ (k.response.kind = "resolve" /\ k.response.present /\ AtobThrows(k.response.b64)
          /\ k.pc = "done") => k.spoke = <<k.text>>
    /\ (k.pc = "done" /\ k.promise.state = "rejected") => k.spoke = <<k.text>>
    /\ (k.played # <<>>) => (k.promise.state = "fulfilled" /\ ~PrimaryFailed(k))
    /\ (k.pc = "done") => (k.played # <<>> \/ k.spoke # <<>>)

\* one call fell back after its decode was rejected, another one played
C7_Witness ==
  \E c1, c2 \in CallIds :
    /\ calls[c1].pc = "done" /\ calls[c1].promise.error = "RangeError"
    /\ calls[c1].spoke = <<calls[c1].text>> /\ calls[c1].played = <<>>
    /\ calls[c2].pc = "done" /\ calls[c2].spoke = <<>>
    /\ Len(calls[c2].played) = 1 /\ calls[c2].played[1].length = 2

\* the first position of step e in a call's log, 0 when it did not run
Pos(log, e) ==
  IF \E k \in 1..Len(log) : log[k] = e
    THEN CHOOSE k \in 1..Len(log) : log[k] = e /\ \A j \in 1..(k - 1) : log[j] # e
    ELSE 0

\* step b ran only after step a
After(log, a, b) == Pos(log, b) # 0 => (Pos(log, a) # 0 /\ Pos(log, a) < Pos(log, b))

Occurrences(log, e) == Cardinality({k \in 1..Len(log) : log[k] = e})

HasAudio(r) == r.kind = "resolve" /\ r.present /\ r.b64 # <<>>

\* C11: in every playAudio call the request completes, then the base64 string is
\* decoded to bytes, then the bytes are PCM-decoded, and only then is the buffer
\* started; the decoder is never invoked when the request failed or returned no
\* audio data; playback is never started without a successfully decoded buffer.
C11_StepOrder ==
  \A c \in CallIds :
    LET k == calls[c] IN
    /\ After(k.log, "request", "generated")
    /\ After(k.log, "generated", "atob")
    /\ After(k.log, "atob", "pcm")
    /\ After(k.log, "pcm", "start")
    /\ \A e \in {"request", "generated", "atob", "pcm", "start"} : Occurrences(k.log, e) <= 1
    /\ (Pos(k.log, "atob") # 0 \/ Pos(k.log, "pcm") # 0) => HasAudio(k.response)
    /\ (k.promise.state # "pending") <=> (Pos(k.log, "pcm") # 0)
    /\ (Pos(k.log, "start") # 0 \/ k.played # <<>>) =>
          /\ k.promise.state = "fulfilled"
          /\ k.played = <<k.promise.buffer>>
          /\ k.promise.buffer.length >= 1

\* a call that went through resume, base64, PCM decoding and start, in this order
C11_Witness ==
  \E c \in CallIds :
    /\ calls[c].log = <<"request", "generated", "resume", "atob", "pcm", "start">>
    /\ Len(calls[c].played) = 1

\* What a call decoding its own base64 payload alone must produce (one channel):
\* the reference is computed from the payload's bytes without the decoder.
OwnBytes(k) == Decode(k.response.b64)

ReferenceBuffer(bytes) ==
  [numberOfChannels |-> 1, length |-> Len(bytes) \div 2, sampleRate |-> 24000,
   channels |-> << [i \in 1..(Len(bytes) \div 2) |->
                      Frac(SignedLE(bytes[2 * i - 1], bytes[2 * i]), 32768)] >>]

\* C12: for any interleaving of overlapping playAudio calls, the buffer a call
\* decodes and plays depends only on that call's own input bytes, and is what the
\* call produces when it runs alone.
C12_OwnBytesOnly ==
  \A c \in CallIds :
    LET k == calls[c] IN
    /\ (k.promise.state = "fulfilled") => k.promise.buffer = ReferenceBuffer(OwnBytes(k))
    /\ (k.promise.state = "rejected") =>
          (Len(OwnBytes(k)) % 2 # 0 \/ Len(OwnBytes(k)) < 2)
    /\ (k.played # <<>>) => k.played = <<ReferenceBuffer(OwnBytes(k))>>

\* two calls overlap on different payloads: one has played its two frames while
\* the other still awaits its own one-frame buffer
C12_Witness ==
  \E c1, c2 \in CallIds :
    /\ calls[c1].pc = "done" /\ Len(calls[c1].played) = 1
    /\ calls[c1].played[1].length = 2
    /\ calls[c2].pc = "awaitDecode" /\ calls[c2].promise.state = "fulfilled"
    /\ calls[c2].promise.buffer.length = 1
    /\ Pos(calls[c2].log, "request") # 0

\* C13: across any interleaving of playAudio calls at most one AudioContext is
\* constructed: audioContext goes from null to a context at most once and is
\* never replaced or reset to null afterwards.
C13_OneContext ==
  /\ [](ctxCount <= 1 /\ (audioContext.exists <=> ctxCount = 1))
  /\ [][/\ audioContext.exists => audioContext'.exists
        /\ (ctxCount' # ctxCount) => (~audioContext.exists /\ ctxCount' = ctxCount + 1)]_vars

\* both calls are past the context check and one context exists
C13_Witness ==
  /\ ctxCount = 1 /\ audioContext.exists
  /\ \A c \in CallIds : Pos(calls[c].log, "pcm") # 0

\* ------------------------------------------------------------ App: handlers
\* the search form and the bottom navigation are rendered on every view but
\* ONBOARDING (the component returns the onboarding screen early)
ShellRendered == view # "ONBOARDING"

\* the save button is rendered with the result card
ResultCardRendered == view = "RESULT" /\ currentResult.exists /\ ~isLoading

SameTerm(n, e) == n.term = e.term

\* handleStart
HandleStart ==
  /\ view = "ONBOARDING"
  /\ view' = "HOME"
  /\ UNCHANGED <<query, isLoading, currentResult, notebook, chatSession, searches>>
  /\ UNCHANGED audioVars

\* onChange of the search box: setQuery(e.target.value)
SetQuery(q) ==
  /\ ShellRendered
  /\ q # query
  /\ query' = q
  /\ UNCHANGED <<view, isLoading, currentResult, notebook, chatSession, searches>>
  /\ UNCHANGED audioVars

\* handleSearch up to its await: an empty query returns at once, otherwise the
\* loading flag is set, the view goes HOME and lookupTerm(query, ...) is started
HandleSearch ==
  /\ ShellRendered
  /\ \E i \in SearchIds :
       /\ searches[i].state = "unused"
       /\ \A j \in SearchIds : j < i => searches[j].state # "unused"
       /\ IF Trim(query) = <<>>
            THEN UNCHANGED <<isLoading, view, searches>>
            ELSE /\ isLoading' = TRUE
                 /\ view' = "HOME"
                 /\ searches' = [searches EXCEPT ![i] = [state |-> "pending", term |-> query]]
  /\ UNCHANGED <<query, currentResult, notebook, chatSession>>
  /\ UNCHANGED audioVars

\* (bug variant: the view is set to RESULT whether or not the lookup succeeded)
LookupSettleViewAlways(i) ==
  /\ searches[i].state = "pending"
  /\ \E ok \in BOOLEAN :
       IF ok
         THEN /\ currentResult' = Entry(searches[i].term, i)
              /\ view' = "RESULT"
              /\ chatSession' = Session(searches[i].term)
              /\ searches' = [searches EXCEPT ![i] = SettledSearch]
         ELSE /\ searches' = [searches EXCEPT ![i] = SettledSearch]
              /\ view' = "RESULT"
              /\ UNCHANGED <<currentResult, chatSession>>
  /\ isLoading' = FALSE
  /\ UNCHANGED <<query, notebook>>
  /\ UNCHANGED audioVars

\* handleSearch after its await: on a result, currentResult, the view and a new
\* chat session for result.term are set; on a rejection the user is alerted;
\* finally the loading flag is cleared
LookupSettle(i) ==
  /\ searches[i].state = "pending"
  /\ \E ok \in BOOLEAN :
       IF ok
         THEN /\ currentResult' = Entry(searches[i].term, i)
              /\ view' = "RESULT"
              /\ chatSession' = Session(searches[i].term)
              /\ searches' = [searches EXCEPT ![i] = SettledSearch]
         ELSE /\ searches' = [searches EXCEPT ![i] = SettledSearch]
              /\ UNCHANGED <<currentResult, view, chatSession>>
  /\ isLoading' = FALSE
  /\ UNCHANGED <<query, notebook>>
  /\ UNCHANGED audioVars

\* (bug variant: the saved entry is looked up by id, not by term)
ToggleSaveById ==
  /\ ResultCardRendered
  /\ currentResult.exists
  /\ notebook' =
       IF \E k \in 1..Len(notebook) : notebook[k].id = currentResult.id
         THEN SelectSeq(notebook, LAMBDA n : n.id # currentResult.id)
         ELSE <<currentResult>> \o notebook
  /\ UNCHANGED <<view, query, isLoading, currentResult, chatSession, searches>>
  /\ UNCHANGED audioVars

\* toggleSave
ToggleSave ==
  /\ ResultCardRendered
  /\ currentResult.exists
  /\ notebook' =
       IF \E k \in 1..Len(notebook) : SameTerm(notebook[k], currentResult)
         THEN SelectSeq(notebook, LAMBDA n : ~SameTerm(n, currentResult))
         ELSE <<currentResult>> \o notebook
  /\ UNCHANGED <<view, query, isLoading, currentResult, chatSession, searches>>
  /\ UNCHANGED audioVars

\* the click on a notebook entry: setCurrentResult(entry); setView(RESULT)
ClickEntry(k) ==
  /\ view = "NOTEBOOK"
  /\ k \in 1..Len(notebook)
  /\ currentResult' = notebook[k]
  /\ view' = "RESULT"
  /\ UNCHANGED <<query, isLoading, notebook, chatSession, searches>>
  /\ UNCHANGED audioVars

\* bottom navigation: Search
NavHome ==
  /\ ShellRendered
  /\ view' = "HOME"
  /\ UNCHANGED <<query, isLoading, currentResult, notebook, chatSession, searches>>
  /\ UNCHANGED audioVars

\* bottom navigation: Notebook; also the back buttons of STORY and FLASHCARDS
NavNotebook ==
  /\ ShellRendered
  /\ view' = "NOTEBOOK"
  /\ UNCHANGED <<query, isLoading, currentResult, notebook, chatSession, searches>>
  /\ UNCHANGED audioVars

\* Study Mode
StudyMode ==
  /\ view = "NOTEBOOK" /\ Len(notebook) > 0
  /\ view' = "FLASHCARDS"
  /\ UNCHANGED <<query, isLoading, currentResult, notebook, chatSession, searches>>
  /\ UNCHANGED audioVars

\* handleGenerateStory: with fewer than three words the user is alerted and
\* nothing changes; otherwise the view goes to STORY
HandleGenerateStory ==
  /\ view = "NOTEBOOK" /\ Len(notebook) > 0
  /\ IF Len(notebook) < 3 THEN UNCHANGED view ELSE view' = "STORY"
  /\ UNCHANGED <<query, isLoading, currentResult, notebook, chatSession, searches>>
  /\ UNCHANGED audioVars

InitApp ==
  /\ AppInit
  /\ data = <<>>
  /\ numChannels = PlayChannels
  /\ ret = Pending
  /\ dpc = "unused"
  /\ audioContext = NoContext
  /\ ctxCount = 0
  /\ calls = [c \in CallIds |-> IdleCall]

NextApp ==
  \/ HandleStart
  \/ \E q \in Queries : SetQuery(q)
  \/ HandleSearch
  \/ \E i \in SearchIds : LookupSettle(i)
  \/ ToggleSave
  \/ \E k \in 1..MaxSearches : ClickEntry(k)
  \/ NavHome
  \/ NavNotebook
  \/ StudyMode
  \/ HandleGenerateStory

SpecApp == InitApp /\ [][NextApp]_vars

\* ------------------------------------------------------------ claims: App
SearchPending == \E i \in SearchIds : searches[i].state = "pending"

PendingCount == Cardinality({i \in SearchIds : searches[i].state = "pending"})

\* C14: whenever at least one lookupTerm request started by handleSearch is
\* still pending, isLoading is true, also when searches overlap.
C14_LoadingWhilePending == SearchPending => isLoading

\* C15: if the view is RESULT and a chat session exists, the chat session was
\* created for the term of currentResult.
C15_ChatMatchesResult ==
  (view = "RESULT" /\ chatSession.exists) =>
     (currentResult.exists /\ chatSession.term = currentResult.term)

Terms(nb) == {nb[k].term : k \in 1..Len(nb)}

NoDuplicateTerms(nb) ==
  \A j, k \in 1..Len(nb) : nb[j].term = nb[k].term => j = k

\* nb with every entry of the given term taken out, the rest in their order
RECURSIVE Without(_, _)
Without(nb, term) ==
  IF nb = <<>> THEN <<>>
  ELSE IF Head(nb).term = term THEN Without(Tail(nb), term)
  ELSE <<Head(nb)>> \o Without(Tail(nb), term)

\* C16: the notebook never holds two entries with the same term; toggleSave on
\* an unsaved currentResult puts it at the front, and toggleSave on a saved term
\* removes every entry with that term and keeps the order of the others.
\* (Only toggleSave changes the notebook, and it always changes it.)
C16_NotebookTerms ==
  /\ [](NoDuplicateTerms(notebook))
  /\ [][(notebook' # notebook) =>
          /\ currentResult.exists
          /\ IF currentResult.term \in Terms(notebook)
               THEN /\ notebook' = Without(notebook, currentResult.term)
                    /\ currentResult.term \notin Terms(notebook')
               ELSE /\ notebook' = <<currentResult>> \o notebook
                    /\ Head(notebook') = currentResult]_vars

\* the front entry is older than the one behind it: it was saved, removed
\* through a notebook click and toggleSave, and saved again at the front
C16_Witness ==
  /\ Len(notebook) = 2
  /\ notebook[1].id < notebook[2].id
  /\ currentResult = notebook[1]

\* the displayed result has the term of a saved entry of an earlier search
C16_WitnessSameTerm ==
  /\ view = "RESULT" /\ currentResult.exists
  /\ \E k \in 1..Len(notebook) :
       notebook[k].term = currentResult.term /\ notebook[k].id < currentResult.id

\* C17: view = RESULT implies currentResult is non-null, whatever the order of
\* searches, notebook clicks and navigation; once the view has left ONBOARDING
\* it never returns to it.
C17_ResultHasEntry ==
  /\ [](view = "RESULT" => currentResult.exists)
  /\ [][view # "ONBOARDING" => view' # "ONBOARDING"]_vars

\* a result is shown while another, overlapping search is still pending
C17_Witness ==
  /\ view = "RESULT" /\ currentResult.exists
  /\ SearchPending
  /\ \E i \in SearchIds : searches[i].state = "settled"

\* no result has come back yet although searches have settled: they failed
C17_WitnessFailedOnly ==
  /\ ~currentResult.exists /\ view = "HOME"
  /\ \A i \in SearchIds : searches[i].state = "settled"

====
